---- MODULE Spec2Model ----
(***************************************************************************)
(* The alert state machine of DrowsinessDetector                           *)
(* (src/guard_fatigue_detection.py): the per-frame update process_frame    *)
(* with the audio alert controller _handle_audio_alert and the guard       *)
(* presence monitor _handle_no_face.                                       *)
(*                                                                         *)
(* Time is counted in clock ticks, TicksPerSecond ticks to the second.     *)
(* Every duration of the source is kept in seconds and converted with      *)
(* Ticks().  The frame source (camera and face mesh) is the environment:   *)
(* each frame is a closed-eye face frame (avg_ear < EAR_THRESH), an        *)
(* open-eye face frame or a frame without a face, and arrives dt ticks     *)
(* after the previous clock reading.  time.time() is read anew at every    *)
(* call site, so the clock may advance between two readings of one frame.  *)
(*                                                                         *)
(* The specifications share the frame actions.  Spec feeds frames at a     *)
(* high rate over a short horizon and explores the fatigue scorer in       *)
(* full.  SpecGuard is a guard-mode run of a few frames spread over a      *)
(* long horizon, with the operator at most blinking, and explores the      *)
(* guard presence monitor up to and beyond escalation.  SpecIO is a run of *)
(* very few frames with an event log file and with collaborators (audio    *)
(* backend, log file) that may fail in any frame.  SpecExit is a short     *)
(* guard-mode run up to the end of the capture loop.                       *)
(***************************************************************************)
EXTENDS Integers, Sequences, FiniteSets, TLC

\* ------------------------------------------------------------------ bounds
\* resolution of the modelled clock
TicksPerSecond == 2
\* reading of time.time() when the detector is constructed, in ticks
ClockStart == 4
\* Spec: seconds of clock time explored after construction
MaxSeconds == 1
\* Spec: closed-eye frames are fed while counter is below this
MaxCounter == 51
\* SpecGuard: ticks explored beyond two escalated absences
GuardSlack == 3
\* SpecGuard: frames processed in a run
MaxFrames == 5
\* SpecGuard: closed-eye frames are fed while counter and fatigue_score are
\* below these
GuardMaxCounter == 1
GuardMaxScore == 1
\* the closedFrameDebounce of the specification's example configuration
AltClosedEyesFrame == 40
\* SpecIO: frames processed in a run
IOMaxFrames == 3
\* SpecExit: frames processed before the run ends
ExitMaxFrames == 2
\* SpecIO: the CLOSED_EYES_FRAME of the run's configuration
IOClosedEyesFrame == 2

Ticks(seconds) == seconds * TicksPerSecond

\* ------------------------------------------------- constants of __init__
DEFAULT_CLOSED_EYES_FRAME == 20
beep_interval_seconds == 1
fatigue_increase_per_frame == 2
fatigue_decay_per_frame == 1
fatigue_alert_threshold == 60
no_face_timeout_seconds == 10
escalation_seconds == 60
FATIGUE_MAX == 100
FATIGUE_MIN == 0

Min(a, b) == IF a <= b THEN a ELSE b
Max(a, b) == IF a >= b THEN a ELSE b

VARIABLES
    \* configuration; log_path is whether a path is configured
    guard_mode, CLOSED_EYES_FRAME, log_path,
    \* DetectorState
    counter, alert_active, last_beep_time, fatigue_score,
    last_face_time, guard_alert_active, guard_escalated,
    \* the wall clock read by time.time()
    clock,
    \* the last processed frame: its kind, the events it handed to the
    \* logger, its requests to the audio backend, the active arguments of
    \* its calls of _handle_audio_alert, its seconds_since_face (-1: not
    \* computed), and the clock time between its escalation tone and the
    \* one before (-1: no such pair)
    frame, events, audio, calls, seconds_since_face, escalation_gap,
    \* the last call of _handle_audio_alert
    ctl,
    \* history of the frame stream: closed-eye frames at its end and whether
    \* they began at score 0; ALERT_ESCALATED events of the current absence;
    \* the no-face alert episode and its ALERT_CLEARED events; the clock at
    \* the last escalation tone (0: none yet)
    run, run_from_zero, absence_escalations, episode, episode_cleared,
    last_escalation_at,
    \* the clock at the last play request, of either tone, since
    \* alert_active became true (0: none yet), and the clock time between
    \* the normal tone of the last frame and the play request before it
    \* (-1: no such pair)
    last_play_at, play_gap,
    \* the capture loop of start_detection has not been left
    running,
    \* the collaborators whose calls raise during the next frame, out of
    \* "play", "stop" and "log"
    fails,
    \* the file at log_path, and what it was when the detector was made
    log_file, log_initial,
    \* the rows of all events handed to _maybe_log_event with a path
    \* configured, and whether a write of one of them has failed
    emitted, write_failed,
    \* the last processed frame: the requests the audio backend carried
    \* out, and whether an exception left process_frame
    sounded, raised,
    \* frames processed so far in a run of SpecGuard
    nframes

vars == <<guard_mode, CLOSED_EYES_FRAME, counter, alert_active, last_beep_time,
          fatigue_score, last_face_time, guard_alert_active, guard_escalated,
          clock, frame, events, audio, calls, seconds_since_face,
          escalation_gap, ctl, run, run_from_zero, absence_escalations,
          episode, episode_cleared, last_escalation_at, last_play_at,
          play_gap, running, nframes, log_path, fails, log_file, log_initial,
          emitted, write_failed, sounded, raised>>

\* number of occurrences of x in the sequence q
Count(q, x) == Cardinality({i \in DOMAIN q : q[i] = x})

\* The detector as a record: the attributes of self, the clock, and what the
\* current frame has done so far.
Self ==
    [guard_mode |-> guard_mode, CLOSED_EYES_FRAME |-> CLOSED_EYES_FRAME,
     counter |-> counter, alert_active |-> alert_active,
     last_beep_time |-> last_beep_time, fatigue_score |-> fatigue_score,
     last_face_time |-> last_face_time,
     guard_alert_active |-> guard_alert_active,
     guard_escalated |-> guard_escalated,
     clock |-> clock, events |-> <<>>, audio |-> <<>>, calls |-> <<>>,
     seconds_since_face |-> -1, escalation_gap |-> -1,
     escalation_at |-> last_escalation_at, ctl |-> ctl,
     play_at |-> last_play_at, play_gap |-> -1,
     log_path |-> log_path, fails |-> fails, log_file |-> log_file,
     emitted |-> emitted, write_failed |-> write_failed,
     sounded |-> <<>>, exc |-> FALSE]

\* time.time(): the clock has advanced by d ticks since it was last read.
time_time(s, d) == [s EXCEPT !.clock = @ + d]

\* sd.play, or afplay where sounddevice is missing: the backend sounds the
\* tone, or the call raises.
backend_play(s, tone) ==
    IF "play" \in s.fails
    THEN [s EXCEPT !.exc = TRUE]
    ELSE [s EXCEPT !.sounded = Append(@, tone)]

\* sd.stop: the backend stops the playback, or the call raises.
backend_stop(s) ==
    IF "stop" \in s.fails
    THEN [s EXCEPT !.exc = TRUE]
    ELSE [s EXCEPT !.sounded = Append(@, "stop")]

\* except Exception: pass
except_pass(s) == [s EXCEPT !.exc = FALSE]

\* _play_beep without its except clauses
play_beep_Uncaught(s) ==
    backend_play(
        [s EXCEPT !.audio = Append(@, "beep"),
                  !.play_gap = IF s.play_at = 0 THEN -1
                               ELSE s.clock - s.play_at,
                  !.play_at = s.clock],
        "beep")

\* _play_beep: one play request for the normal tone.
play_beep(s) ==
    except_pass(backend_play(
        [s EXCEPT !.audio = Append(@, "beep"),
                  !.play_gap = IF s.play_at = 0 THEN -1
                               ELSE s.clock - s.play_at,
                  !.play_at = s.clock],
        "beep"))

\* _play_escalation_beep: one play request for the escalation tone.
play_escalation_beep(s) ==
    except_pass(backend_play(
        [s EXCEPT !.audio = Append(@, "escalation"),
                  !.escalation_gap = IF s.escalation_at = 0 THEN -1
                                     ELSE s.clock - s.escalation_at,
                  !.escalation_at = s.clock,
                  !.play_at = s.clock],
        "escalation"))

\* _stop_audio: one stop-playback request.
stop_audio(s) ==
    except_pass(backend_stop([s EXCEPT !.audio = Append(@, "stop")]))

\* the header row of the event log
LogHeader == <<"timestamp", "event">>

\* time.strftime('%Y-%m-%d %H:%M:%S'): the clock in whole seconds, as text
strftime(now) == ToString(now \div TicksPerSecond)

\* _maybe_log_event writing the header row before every row
maybe_log_event_HeaderAlways(s, event) ==
    LET s1 == [s EXCEPT !.events = Append(@, event)]
        row == <<strftime(s.clock), event>>
    IN  IF ~s.log_path
        THEN s1
        ELSE LET s2 == [s1 EXCEPT !.emitted = Append(@, row)]
             IN  IF "log" \in s.fails
                 THEN except_pass([s2 EXCEPT !.exc = TRUE,
                                             !.write_failed = TRUE])
                 ELSE [s2 EXCEPT !.log_file =
                          [exists |-> TRUE,
                           rows |-> Append(Append(s.log_file.rows, LogHeader),
                                           row)]]

\* _maybe_log_event: the event is handed to the event logger; with a path
\* configured its row is appended to the file, after the header row if the
\* file does not exist yet.  A failing write raises at open() and is
\* swallowed.
maybe_log_event(s, event) ==
    LET s1 == [s EXCEPT !.events = Append(@, event)]
        row == <<strftime(s.clock), event>>
    IN  IF ~s.log_path
        THEN s1
        ELSE LET s2 == [s1 EXCEPT !.emitted = Append(@, row)]
                 file_exists == s.log_file.exists
             IN  IF "log" \in s.fails
                 THEN except_pass([s2 EXCEPT !.exc = TRUE,
                                             !.write_failed = TRUE])
                 ELSE [s2 EXCEPT !.log_file =
                          [exists |-> TRUE,
                           rows |-> Append(IF ~file_exists
                                           THEN Append(s.log_file.rows,
                                                       LogHeader)
                                           ELSE s.log_file.rows,
                                           row)]]

\* _handle_audio_alert with the falling edge's _stop_audio() left out
handle_audio_alert_NoStop(s, active, d) ==
    LET s1 == IF active /\ ~s.alert_active
              THEN [s EXCEPT !.alert_active = TRUE, !.last_beep_time = 0]
              ELSE s
    IN  IF ~active /\ s1.alert_active
        THEN [s1 EXCEPT !.alert_active = FALSE]
        ELSE IF s1.alert_active
             THEN LET s2 == time_time(s1, d)
                  IN  IF s2.clock - s2.last_beep_time >= Ticks(beep_interval_seconds)
                      THEN [play_beep(s2) EXCEPT !.last_beep_time = s2.clock]
                      ELSE s2
             ELSE s1

\* _handle_audio_alert with _stop_audio() on every call with active=False
handle_audio_alert_StopWhenInactive(s, active, d) ==
    LET s1 == IF active /\ ~s.alert_active
              THEN [s EXCEPT !.alert_active = TRUE, !.last_beep_time = 0]
              ELSE s
    IN  IF ~active
        THEN stop_audio([s1 EXCEPT !.alert_active = FALSE])
        ELSE IF s1.alert_active
             THEN LET s2 == time_time(s1, d)
                  IN  IF s2.clock - s2.last_beep_time >= Ticks(beep_interval_seconds)
                      THEN [play_beep(s2) EXCEPT !.last_beep_time = s2.clock]
                      ELSE s2
             ELSE s1

\* _handle_audio_alert with the assignment of last_beep_time after the
\* beep left out
handle_audio_alert_NoStamp(s, active, d) ==
    LET s1 == IF active /\ ~s.alert_active
              THEN [s EXCEPT !.alert_active = TRUE, !.last_beep_time = 0]
              ELSE s
    IN  IF ~active /\ s1.alert_active
        THEN stop_audio([s1 EXCEPT !.alert_active = FALSE])
        ELSE IF s1.alert_active
             THEN LET s2 == time_time(s1, d)
                  IN  IF s2.clock - s2.last_beep_time >= Ticks(beep_interval_seconds)
                      THEN play_beep(s2)
                      ELSE s2
             ELSE s1

\* _handle_audio_alert(active); d is the clock advance up to its time.time().
handle_audio_alert(s, active, d) ==
    LET s1 == IF active /\ ~s.alert_active
              THEN [s EXCEPT !.alert_active = TRUE, !.last_beep_time = 0]
              ELSE s
    IN  IF ~active /\ s1.alert_active
        THEN stop_audio([s1 EXCEPT !.alert_active = FALSE])
        ELSE IF s1.alert_active
             THEN LET s2 == time_time(s1, d)
                  IN  IF s2.clock - s2.last_beep_time >= Ticks(beep_interval_seconds)
                      THEN [play_beep(s2) EXCEPT !.last_beep_time = s2.clock]
                      ELSE s2
             ELSE s1

\* A call self._handle_audio_alert(active), with the record of the call: its
\* edge (from the argument and alert_active before the call), the play and
\* stop requests it made and, for a call with active=False that comes right
\* after a rising edge, the requests of that rising edge and whether
\* less than the beep interval has passed since.
AudioCall(s, active, d) ==
    LET rising == active /\ ~s.alert_active
        r == handle_audio_alert(IF rising THEN [s EXCEPT !.play_at = 0] ELSE s,
                                active, d)
        after == ~active /\ s.ctl.edge = "rising"
    IN  [r EXCEPT
           !.calls = Append(@, active),
           !.ctl = [edge |-> IF rising THEN "rising"
                             ELSE IF ~active /\ s.alert_active THEN "falling"
                             ELSE IF active THEN "level" ELSE "idle",
                    plays |-> Count(r.audio, "beep") - Count(s.audio, "beep"),
                    stops |-> Count(r.audio, "stop") - Count(s.audio, "stop"),
                    at |-> IF rising THEN r.clock ELSE 0,
                    after_rising |-> after,
                    rise_plays |-> IF after THEN s.ctl.plays ELSE 0,
                    rise_stops |-> IF after THEN s.ctl.stops ELSE 0,
                    quick |-> after /\ r.clock - s.ctl.at
                                           < Ticks(beep_interval_seconds)]]

\* the alert condition with counter > CLOSED_EYES_FRAME
FatigueAlertCondition_StrictCount(s) ==
    \/ s.counter > s.CLOSED_EYES_FRAME
    \/ s.fatigue_score >= fatigue_alert_threshold

\* the alert condition without the score path
FatigueAlertCondition_CountOnly(s) == s.counter >= s.CLOSED_EYES_FRAME

\* the alert condition with "and" for "or"
FatigueAlertCondition_Both(s) ==
    /\ s.counter >= s.CLOSED_EYES_FRAME
    /\ s.fatigue_score >= fatigue_alert_threshold

\* counter >= CLOSED_EYES_FRAME or fatigue_score >= fatigue_alert_threshold
FatigueAlertCondition(s) ==
    \/ s.counter >= s.CLOSED_EYES_FRAME
    \/ s.fatigue_score >= fatigue_alert_threshold

\* the increase without min(100.0, ...)
IncreaseFatigue_NoClamp(score) == score + fatigue_increase_per_frame

\* fatigue_score = min(100.0, fatigue_score + fatigue_increase_per_frame)
IncreaseFatigue(score) == Min(FATIGUE_MAX, score + fatigue_increase_per_frame)

\* the decay without max(0.0, ...)
DecayFatigue_NoFloor(score) == score - fatigue_decay_per_frame

\* fatigue_score = max(0.0, fatigue_score - fatigue_decay_per_frame)
DecayFatigue(score) == Max(FATIGUE_MIN, score - fatigue_decay_per_frame)

\* process_frame without the assignment of last_face_time on closed-eye
\* frames
process_face_StampOnOpenOnly(s, closed, dt, d1) ==
    LET s1 == time_time(s, dt)
        s2 == [s1 EXCEPT !.last_face_time = s1.clock]
    IN  IF closed
        THEN LET s3 == [s1 EXCEPT !.counter = @ + 1,
                                  !.fatigue_score = IncreaseFatigue(@)]
             IN  IF FatigueAlertCondition(s3)
                 THEN maybe_log_event(AudioCall(s3, TRUE, d1), "FATIGUE_ALERT")
                 ELSE s3
        ELSE AudioCall(
                 [s2 EXCEPT !.counter = 0, !.fatigue_score = DecayFatigue(@)],
                 FALSE, d1)

\* process_frame, the branch of a detected face; closed is avg_ear < EAR_THRESH,
\* dt the clock advance up to the reading of last_face_time.
process_face(s, closed, dt, d1) ==
    LET s1 == time_time(s, dt)
        s2 == [s1 EXCEPT !.last_face_time = s1.clock]
    IN  IF closed
        THEN LET s3 == [s2 EXCEPT !.counter = @ + 1,
                                  !.fatigue_score = IncreaseFatigue(@)]
             IN  IF FatigueAlertCondition(s3)
                 THEN maybe_log_event(AudioCall(s3, TRUE, d1), "FATIGUE_ALERT")
                 ELSE s3
        ELSE AudioCall(
                 [s2 EXCEPT !.counter = 0, !.fatigue_score = DecayFatigue(@)],
                 FALSE, d1)

\* the timeout test with > for >=
NoFaceTimedOut_Strict(since) == since > Ticks(no_face_timeout_seconds)

\* seconds_since_face >= no_face_timeout_seconds
NoFaceTimedOut(since) == since >= Ticks(no_face_timeout_seconds)

\* seconds_since_face >= no_face_timeout_seconds + escalation_seconds
NoFaceEscalates(since) ==
    since >= Ticks(no_face_timeout_seconds) + Ticks(escalation_seconds)

\* time.time() - last_beep_time >= max(0.5, beep_interval_seconds / 2),
\* both sides doubled
EscalationBeepDue(now, last) ==
    2 * (now - last) >= Max(Ticks(1), Ticks(beep_interval_seconds))

\* _handle_no_face without the early return of a detector not in guard mode
handle_no_face_NoModeCheck(s, dt, d1, d2, d3) ==
    LET s0 == time_time(s, dt)
        since == s0.clock - s0.last_face_time
        s1 == [s0 EXCEPT !.seconds_since_face = since]
    IN  IF NoFaceTimedOut(since)
        THEN LET s2 == maybe_log_event(AudioCall(s1, TRUE, d1), "NO_FACE_ALERT")
             IN  IF NoFaceEscalates(since)
                 THEN LET s3 == IF ~s2.guard_escalated
                                THEN maybe_log_event(
                                         [s2 EXCEPT !.guard_escalated = TRUE],
                                         "ALERT_ESCALATED")
                                ELSE s2
                          s4 == time_time(s3, d2)
                      IN  IF EscalationBeepDue(s4.clock, s4.last_beep_time)
                          THEN LET s5 == time_time(play_escalation_beep(s4), d3)
                               IN  [s5 EXCEPT !.last_beep_time = s5.clock]
                          ELSE s4
                 ELSE s2
        ELSE LET s2 == IF s1.alert_active \/ s1.guard_alert_active
                       THEN maybe_log_event(s1, "ALERT_CLEARED")
                       ELSE s1
             IN  AudioCall([s2 EXCEPT !.guard_escalated = FALSE,
                                      !.guard_alert_active = FALSE],
                           FALSE, 0)

\* _handle_no_face taking a frame without a face for the end of the
\* closed-eye run
handle_no_face_ResetsCounter(s, dt, d1, d2, d3) ==
    IF ~s.guard_mode
    THEN [time_time(s, dt) EXCEPT !.counter = 0]
    ELSE [handle_no_face_NoModeCheck(s, dt, d1, d2, d3) EXCEPT !.counter = 0]

\* _handle_no_face; dt is the clock advance up to the reading of now, d1 up
\* to the reading in _handle_audio_alert, d2 and d3 up to the two readings
\* around the escalation tone.
handle_no_face(s, dt, d1, d2, d3) ==
    IF ~s.guard_mode
    THEN time_time(s, dt)
    ELSE
    LET s0 == time_time(s, dt)
        since == s0.clock - s0.last_face_time
        s1 == [s0 EXCEPT !.seconds_since_face = since]
    IN  IF NoFaceTimedOut(since)
        THEN LET s2 == maybe_log_event(AudioCall(s1, TRUE, d1), "NO_FACE_ALERT")
             IN  IF NoFaceEscalates(since)
                 THEN LET s3 == IF ~s2.guard_escalated
                                THEN maybe_log_event(
                                         [s2 EXCEPT !.guard_escalated = TRUE],
                                         "ALERT_ESCALATED")
                                ELSE s2
                          s4 == time_time(s3, d2)
                      IN  IF EscalationBeepDue(s4.clock, s4.last_beep_time)
                          THEN LET s5 == time_time(play_escalation_beep(s4), d3)
                               IN  [s5 EXCEPT !.last_beep_time = s5.clock]
                          ELSE s4
                 ELSE s2
        ELSE LET s2 == IF s1.alert_active \/ s1.guard_alert_active
                       THEN maybe_log_event(s1, "ALERT_CLEARED")
                       ELSE s1
             IN  AudioCall([s2 EXCEPT !.guard_escalated = FALSE,
                                      !.guard_alert_active = FALSE],
                           FALSE, 0)

\* The attributes of self, the clock and the record of the frame after it.
Assign(s) ==
    /\ guard_mode' = s.guard_mode
    /\ CLOSED_EYES_FRAME' = s.CLOSED_EYES_FRAME
    /\ counter' = s.counter
    /\ alert_active' = s.alert_active
    /\ last_beep_time' = s.last_beep_time
    /\ fatigue_score' = s.fatigue_score
    /\ last_face_time' = s.last_face_time
    /\ guard_alert_active' = s.guard_alert_active
    /\ guard_escalated' = s.guard_escalated
    /\ clock' = s.clock
    /\ events' = s.events
    /\ audio' = s.audio
    /\ calls' = s.calls
    /\ seconds_since_face' = s.seconds_since_face
    /\ escalation_gap' = s.escalation_gap
    /\ last_escalation_at' = s.escalation_at
    /\ ctl' = s.ctl
    /\ last_play_at' = s.play_at
    /\ play_gap' = s.play_gap
    /\ log_path' = s.log_path
    /\ log_file' = s.log_file
    /\ emitted' = s.emitted
    /\ write_failed' = s.write_failed
    /\ sounded' = s.sounded
    /\ raised' = s.exc
    /\ UNCHANGED log_initial

\* A face frame ends the absence; the first one after a no-face alert is the
\* re-detection that ends the alert's episode.
FaceHistory ==
    /\ absence_escalations' = 0
    /\ episode' = IF episode = "alert" THEN "redetected" ELSE "none"
    /\ episode_cleared' = IF episode = "alert" THEN episode_cleared ELSE 0

\* process_frame on a frame with a face whose avg_ear is below EAR_THRESH
ClosedEyeFrame(dt, d1) ==
    /\ running
    /\ Assign(process_face(Self, TRUE, dt, d1))
    /\ UNCHANGED running
    /\ frame' = "closed"
    /\ run' = run + 1
    /\ run_from_zero' = IF run = 0 THEN fatigue_score = 0 ELSE run_from_zero
    /\ FaceHistory

\* process_frame on a frame with a face whose avg_ear is at least EAR_THRESH
OpenEyeFrame(dt) ==
    /\ running
    /\ Assign(process_face(Self, FALSE, dt, 0))
    /\ UNCHANGED running
    /\ frame' = "open"
    /\ run' = 0
    /\ run_from_zero' = FALSE
    /\ FaceHistory

\* process_frame on a frame without face landmarks
NoFaceFrame(dt, d1, d2, d3) ==
    LET s == handle_no_face(Self, dt, d1, d2, d3)
        alerts == Count(s.events, "NO_FACE_ALERT") > 0
    IN  /\ running
        /\ Assign(s)
        /\ UNCHANGED running
        /\ frame' = "noface"
        /\ run' = 0
        /\ run_from_zero' = FALSE
        /\ absence_escalations' =
               Min(2, absence_escalations + Count(s.events, "ALERT_ESCALATED"))
        /\ episode' = IF alerts \/ episode = "alert" THEN "alert" ELSE "none"
        /\ episode_cleared' =
               IF episode = "alert"
               THEN Min(2, episode_cleared + Count(s.events, "ALERT_CLEARED"))
               ELSE 0

\* start_detection leaves the capture loop and releases the camera and the
\* windows: reason is "quit" for the q key, read after a processed frame,
\* and "read_failed" for a frame the camera could not deliver.
LeaveLoop(reason) ==
    /\ running
    /\ running' = FALSE
    /\ Assign(Self)
    /\ frame' = reason
    /\ UNCHANGED <<run, run_from_zero, absence_escalations, episode,
                   episode_cleared, nframes, fails>>

QuitKey ==
    /\ frame \in {"closed", "open", "noface"}
    /\ LeaveLoop("quit")

ReadFailure ==
    /\ running
    /\ LeaveLoop("read_failed")

\* ------------------------------------------------------------ behaviours
\* the file at a path that does not exist
NoFile == [exists |-> FALSE, rows |-> <<>>]

\* __init__(log_path) with the file at the path; the collaborators work
\* during the first frame
Construct(path, file) ==
    /\ log_path = path
    /\ log_file = file
    /\ log_initial = file
    /\ fails = {}
    /\ emitted = <<>>
    /\ write_failed = FALSE
    /\ sounded = <<>>
    /\ raised = FALSE
    /\ counter = 0
    /\ alert_active = FALSE
    /\ last_beep_time = 0
    /\ fatigue_score = 0
    /\ clock = ClockStart
    /\ last_face_time = ClockStart
    /\ guard_alert_active = FALSE
    /\ guard_escalated = FALSE
    /\ frame = "none"
    /\ events = <<>>
    /\ audio = <<>>
    /\ calls = <<>>
    /\ seconds_since_face = -1
    /\ escalation_gap = -1
    /\ ctl = [edge |-> "none", plays |-> 0, stops |-> 0, at |-> 0,
              after_rising |-> FALSE, rise_plays |-> 0, rise_stops |-> 0,
              quick |-> FALSE]
    /\ run = 0
    /\ run_from_zero = FALSE
    /\ absence_escalations = 0
    /\ episode = "none"
    /\ episode_cleared = 0
    /\ last_escalation_at = 0
    /\ last_play_at = 0
    /\ play_gap = -1
    /\ running = TRUE
    /\ nframes = 0

\* __init__ without a log path; CLOSED_EYES_FRAME is the constructor's
\* value or the one of the specification's example configuration
Init ==
    /\ guard_mode \in BOOLEAN
    /\ CLOSED_EYES_FRAME \in {DEFAULT_CLOSED_EYES_FRAME, AltClosedEyesFrame}
    /\ Construct(FALSE, NoFile)

\* Spec: frames follow at once or one beep interval later
DtSet == {0, Ticks(beep_interval_seconds)}
MaxClock == ClockStart + Ticks(MaxSeconds)

Closed ==
    \E dt \in DtSet :
        /\ counter < MaxCounter
        /\ clock + dt <= MaxClock
        /\ ClosedEyeFrame(dt, 0)
        /\ UNCHANGED <<nframes, fails>>

Open ==
    \E dt \in DtSet :
        /\ clock + dt <= MaxClock
        /\ OpenEyeFrame(dt)
        /\ UNCHANGED <<nframes, fails>>

NoFace ==
    \E dt \in DtSet :
        /\ clock + dt <= MaxClock
        /\ NoFaceFrame(dt, 0, 0, 0)
        /\ UNCHANGED <<nframes, fails>>

Next == Closed \/ Open \/ NoFace

Spec == Init /\ [][Next]_vars

\* SpecGuard: a guard-mode run with the constructor's configuration
GuardInit ==
    /\ Init
    /\ guard_mode
    /\ CLOSED_EYES_FRAME = DEFAULT_CLOSED_EYES_FRAME

\* SpecGuard: frames follow at once, half a second or a beep interval later,
\* just before or at the no-face timeout, or an escalation window later
GuardDtSet ==
    {0, 1, Ticks(beep_interval_seconds),
     Ticks(no_face_timeout_seconds) - 1, Ticks(no_face_timeout_seconds),
     Ticks(escalation_seconds)}
\* SpecGuard: the clock advances by at most one tick inside a frame
DriftSet == {<<0, 0, 0>>, <<1, 0, 0>>, <<0, 1, 0>>, <<0, 0, 1>>}
GuardMaxClock ==
    ClockStart
    + 2 * (Ticks(no_face_timeout_seconds) + Ticks(escalation_seconds))
    + GuardSlack

GuardClosed ==
    \E dt \in GuardDtSet :
        /\ counter < GuardMaxCounter
        /\ fatigue_score < GuardMaxScore
        /\ clock + dt <= GuardMaxClock
        /\ nframes < MaxFrames
        /\ ClosedEyeFrame(dt, 0)
        /\ nframes' = nframes + 1
        /\ UNCHANGED fails

GuardOpen ==
    \E dt \in GuardDtSet :
        /\ clock + dt <= GuardMaxClock
        /\ nframes < MaxFrames
        /\ OpenEyeFrame(dt)
        /\ nframes' = nframes + 1
        /\ UNCHANGED fails

GuardNoFace ==
    \E dt \in GuardDtSet, d \in DriftSet :
        /\ clock + dt + d[1] + d[2] + d[3] <= GuardMaxClock
        /\ nframes < MaxFrames
        /\ NoFaceFrame(dt, d[1], d[2], d[3])
        /\ nframes' = nframes + 1
        /\ UNCHANGED fails

GuardNext == GuardClosed \/ GuardOpen \/ GuardNoFace

SpecGuard == GuardInit /\ [][GuardNext]_vars

\* SpecExit: a guard-mode run of very few frames that ends with the q key or
\* with a failed camera read
ExitClosed ==
    /\ nframes < ExitMaxFrames
    /\ GuardClosed

ExitOpen ==
    /\ nframes < ExitMaxFrames
    /\ GuardOpen

ExitNoFace ==
    /\ nframes < ExitMaxFrames
    /\ GuardNoFace

ExitNext == ExitClosed \/ ExitOpen \/ ExitNoFace \/ QuitKey \/ ReadFailure

SpecExit == GuardInit /\ [][ExitNext]_vars

\* SpecIO: a run with a log path, with or without guard mode; the file is
\* missing, empty, or holds the rows of an earlier run
InitialFiles ==
    {NoFile,
     [exists |-> TRUE, rows |-> <<>>],
     [exists |-> TRUE, rows |-> <<LogHeader, <<"0", "FATIGUE_ALERT">>>>]}
\* SpecIO: in a frame after the first no collaborator fails, or one does
FailSets == {{}, {"play"}, {"stop"}, {"log"}}
\* SpecIO: frames follow at once, at the no-face timeout, or an escalation
\* window later
IODtSet == {0, Ticks(no_face_timeout_seconds), Ticks(escalation_seconds)}
\* SpecIO: no drift, or one tick before the escalation check
IODriftSet == {<<0, 0, 0>>, <<0, 1, 0>>}

IOInit ==
    /\ guard_mode \in BOOLEAN
    /\ CLOSED_EYES_FRAME = IOClosedEyesFrame
    /\ \E file \in InitialFiles : Construct(TRUE, file)

IOClosed ==
    \E dt \in IODtSet :
        /\ nframes < IOMaxFrames
        /\ ClosedEyeFrame(dt, 0)
        /\ nframes' = nframes + 1
        /\ fails' \in FailSets

IOOpen ==
    \E dt \in IODtSet :
        /\ nframes < IOMaxFrames
        /\ OpenEyeFrame(dt)
        /\ nframes' = nframes + 1
        /\ fails' \in FailSets

IONoFace ==
    \E dt \in IODtSet, d \in IODriftSet :
        /\ nframes < IOMaxFrames
        /\ NoFaceFrame(dt, d[1], d[2], d[3])
        /\ nframes' = nframes + 1
        /\ fails' \in FailSets

IONext == IOClosed \/ IOOpen \/ IONoFace

SpecIO == IOInit /\ [][IONext]_vars

\* ---------------------------------------------------------------- claims
Has(q, x) == Count(q, x) >= 1

\* the fatigue alert is raised by the frame: the controller is driven with
\* active=True, is active afterwards, and FATIGUE_ALERT is emitted
FatigueAlertRaised ==
    /\ calls = <<TRUE>>
    /\ alert_active
    /\ Has(events, "FATIGUE_ALERT")

\* C1: when the last CLOSED_EYES_FRAME processed frames were all closed-eye
\* face frames, the last of them raises the fatigue alert, whatever the
\* fatigue score.
C1_DebounceRaisesAlert ==
    (frame = "closed" /\ run >= CLOSED_EYES_FRAME) => FatigueAlertRaised

\* C1 witness: the debounce is just reached while the score is below the
\* alert threshold, and the alert is raised.
C1_Witness ==
    /\ frame = "closed"
    /\ run = CLOSED_EYES_FRAME
    /\ fatigue_score < fatigue_alert_threshold
    /\ FatigueAlertRaised

\* C2: in guard mode a no-face frame whose time since the last face is below
\* the no-face timeout emits no NO_FACE_ALERT and leaves the audio alert
\* inactive; at or above the timeout it drives the controller with
\* active=True and emits NO_FACE_ALERT.
C2_TimeoutBoundary ==
    (frame = "noface" /\ guard_mode) =>
        IF seconds_since_face < Ticks(no_face_timeout_seconds)
        THEN ~Has(events, "NO_FACE_ALERT") /\ ~alert_active
        ELSE /\ calls = <<TRUE>>
             /\ alert_active
             /\ Has(events, "NO_FACE_ALERT")

\* C2 witness: a no-face frame exactly at the timeout begins the alert.
C2_Witness ==
    /\ frame = "noface"
    /\ guard_mode
    /\ seconds_since_face = Ticks(no_face_timeout_seconds)
    /\ ctl.edge = "rising"
    /\ Has(events, "NO_FACE_ALERT")

\* C3: in guard mode, during one continuous face absence ALERT_ESCALATED is
\* emitted exactly once, on the first no-face frame whose absence reaches
\* no_face_timeout_seconds + escalation_seconds: none before it, and exactly
\* one by every frame from it on, with guard_escalated set.
C3_EscalatedOncePerAbsence ==
    (frame = "noface" /\ guard_mode /\ seconds_since_face >= 0) =>
        IF seconds_since_face
               >= Ticks(no_face_timeout_seconds) + Ticks(escalation_seconds)
        THEN absence_escalations = 1 /\ guard_escalated
        ELSE absence_escalations = 0

\* C4 as stated: on every face frame, closed-eye or open-eye, on which the
\* fatigue alert condition holds after the update, the fatigue alert is
\* raised.
C4_AnyFaceFrameAlert ==
    ( /\ frame \in {"closed", "open"}
      /\ \/ counter >= CLOSED_EYES_FRAME
         \/ fatigue_score >= fatigue_alert_threshold ) => FatigueAlertRaised

\* C4 amended: on every closed-eye face frame on which the fatigue alert
\* condition holds after the update the fatigue alert is raised; an open-eye
\* face frame drives the controller with active=False and emits no
\* FATIGUE_ALERT, whatever the score.
C4_ClosedFrameAlert ==
    /\ ( /\ frame = "closed"
         /\ \/ counter >= CLOSED_EYES_FRAME
            \/ fatigue_score >= fatigue_alert_threshold ) => FatigueAlertRaised
    /\ frame = "open" =>
           /\ calls = <<FALSE>>
           /\ ~alert_active
           /\ ~Has(events, "FATIGUE_ALERT")

\* C4 witness: an open-eye frame ends an alert while the score is still at
\* or above the alert threshold.
C4_Witness ==
    /\ frame = "open"
    /\ fatigue_score >= fatigue_alert_threshold
    /\ ctl.edge = "falling"
    /\ ~alert_active

\* C5: after the first face frame that follows a no-face alert,
\* guard_escalated is false and exactly one ALERT_CLEARED has been emitted
\* since the alert began.
C5_RedetectionClears ==
    episode = "redetected" => (~guard_escalated /\ episode_cleared = 1)

\* C6 as stated: a rising-edge call followed at once, within the beep
\* interval, by a call with active=False requests stop exactly once and
\* play never over the two calls.
C6_NoPlayOnQuickFall ==
    (ctl.after_rising /\ ctl.quick) =>
        /\ ctl.rise_stops + ctl.stops = 1
        /\ ctl.rise_plays + ctl.plays = 0

\* C6 amended: over those two calls stop is requested exactly once, by the
\* falling edge, and play exactly once, by the rising edge (its immediate
\* beep); the falling-edge call requests no play.
C6_OnePlayOnQuickFall ==
    (ctl.after_rising /\ ctl.quick) =>
        /\ ctl.rise_stops = 0
        /\ ctl.stops = 1
        /\ ctl.rise_plays = 1
        /\ ctl.plays = 0

\* C6 witness: an open-eye frame follows the frame that raised the alert
\* before a beep interval has passed.
C6_Witness ==
    /\ frame = "open"
    /\ ctl.edge = "falling"
    /\ ctl.after_rising
    /\ ctl.quick

\* C7: fatigue_score is within [0, 100] in every reachable state.
C7_ScoreInRange == fatigue_score >= 0 /\ fatigue_score <= 100

\* C7 witness: a closed-eye frame that follows an open-eye or no-face frame
\* ends at the upper limit.
C7_Witness == frame = "closed" /\ run = 1 /\ fatigue_score = 100

\* C8: 30 consecutive closed-eye frames from score 0 yield score 60 and the
\* 30th raises the fatigue alert by the score path, under either
\* CLOSED_EYES_FRAME.
C8_ThirtyClosedFrames ==
    (frame = "closed" /\ run = 30 /\ run_from_zero) =>
        /\ fatigue_score = 60
        /\ fatigue_score >= fatigue_alert_threshold
        /\ FatigueAlertRaised

\* C8 witness: the 30th frame raises the alert while the counter is still
\* below the debounce of the example configuration.
C8_Witness ==
    /\ frame = "closed"
    /\ run = 30
    /\ run_from_zero
    /\ CLOSED_EYES_FRAME = AltClosedEyesFrame
    /\ counter < CLOSED_EYES_FRAME
    /\ fatigue_score = 60
    /\ FatigueAlertRaised

\* C9: every closed-eye frame moves fatigue_score strictly up until it is
\* exactly 100 and then leaves it at 100, so a run of 50 such frames ends at
\* 100 from any score; every open-eye frame moves it strictly down until it
\* is exactly 0 and then leaves it at 0.
C9_Saturates ==
    [][ /\ frame' = "closed" =>
               /\ fatigue_score' = 100 \/ fatigue_score' > fatigue_score
               /\ fatigue_score' <= 100
               /\ fatigue_score = 100 => fatigue_score' = 100
               /\ run' >= 50 => fatigue_score' = 100
        /\ frame' = "open" =>
               /\ fatigue_score' = 0 \/ fatigue_score' < fatigue_score
               /\ fatigue_score' >= 0
               /\ fatigue_score = 0 => fatigue_score' = 0 ]_vars

\* C9 witness: a run of closed-eye frames from score 0 has reached 100 and
\* a further closed-eye frame has left it there.
C9_Witness ==
    /\ frame = "closed"
    /\ run_from_zero
    /\ run = 51
    /\ fatigue_score = 100

C11_FaceFrameBelowThresholdsInactive ==
    (frame \in {"closed", "open"} /\ ~FatigueAlertCondition(Self))
        => ~alert_active

\* C17: a stop-playback request is issued by exactly the calls of the audio
\* controller that change alert_active from true to false, once per such
\* call and never by a call with active=false made while the alert is
\* already inactive; the call of a falling edge issues no play request.
C17_StopOnFallingEdgeOnly ==
    /\ ctl.edge = "falling" => (ctl.stops = 1 /\ ctl.plays = 0)
    /\ ctl.edge \in {"idle", "level", "rising"} => ctl.stops = 0
    /\ Len(calls) <= 1
    /\ Count(audio, "stop") =
           IF calls # <<>> /\ ctl.edge = "falling" THEN 1 ELSE 0
    /\ (calls # <<>> /\ ctl.edge = "falling") => Count(audio, "beep") = 0

\* a falling edge that follows level calls, with its one stop request
C17_Witness ==
    /\ calls = <<FALSE>>
    /\ ctl.edge = "falling"
    /\ ~ctl.after_rising
    /\ audio = <<"stop">>

\* the events of the guard presence monitor
GuardEvents == {"NO_FACE_ALERT", "ALERT_ESCALATED", "ALERT_CLEARED"}

\* C19: with guard mode disabled a frame without a face leaves the whole
\* DetectorState unchanged, issues no play and no stop request and emits no
\* event; no frame of such a run emits NO_FACE_ALERT, ALERT_ESCALATED or
\* ALERT_CLEARED; and an audio alert that is active stays marked active
\* over every frame that is not an open-eye face frame.
C19_NoFaceWithoutGuardIsInert ==
    [][~guard_mode =>
         /\ frame' = "noface" =>
                /\ UNCHANGED <<counter, alert_active, last_beep_time,
                               fatigue_score, last_face_time,
                               guard_alert_active, guard_escalated>>
                /\ audio' = <<>>
                /\ calls' = <<>>
                /\ events' = <<>>
         /\ \A i \in DOMAIN events' : events'[i] \notin GuardEvents
         /\ (alert_active /\ frame' # "open") => alert_active']_vars

\* a fatigue alert left active by a frame without a face, guard mode off
C19_Witness ==
    /\ ~guard_mode
    /\ frame = "noface"
    /\ alert_active
    /\ audio = <<>>
    /\ counter >= CLOSED_EYES_FRAME

\* C20: a frame without a face never changes counter or fatigue_score, and
\* every closed-eye face frame adds one to counter, so closed-eye frames
\* separated only by frames without a face keep accumulating and raise the
\* alert when counter reaches CLOSED_EYES_FRAME.
C20_NoFaceKeepsCounterAndScore ==
    [][/\ frame' = "noface" =>
              (counter' = counter /\ fatigue_score' = fatigue_score)
       /\ frame' = "closed" =>
              /\ counter' = counter + 1
              /\ counter' >= CLOSED_EYES_FRAME =>
                     (alert_active' /\ Has(events', "FATIGUE_ALERT"))]_vars

\* the debounce is reached by closed-eye frames that are not consecutive:
\* fewer than CLOSED_EYES_FRAME of them since the last frame without a face
C20_Witness ==
    /\ frame = "closed"
    /\ counter = CLOSED_EYES_FRAME
    /\ run < CLOSED_EYES_FRAME
    /\ run > 0
    /\ fatigue_score < fatigue_alert_threshold
    /\ FatigueAlertRaised

\* C15: no frame issues two play requests: a frame requests at most one of
\* the normal and the escalation tone, also when the beep interval and the
\* escalation cadence are both satisfied.
C15_OnePlayRequestPerFrame ==
    Count(audio, "beep") + Count(audio, "escalation") <= 1

\* C16: while alert_active stays true and the alert is not escalated, a
\* request for the normal tone comes at least beep_interval_seconds after
\* the play request before it, and it sets last_beep_time to the time of
\* the request.
C16_BeepsThrottled ==
    (Has(audio, "beep") /\ ~guard_escalated) =>
        /\ play_gap = -1 \/ play_gap >= Ticks(beep_interval_seconds)
        /\ last_beep_time = last_play_at
        /\ last_play_at <= clock

\* the second beep of an alert, one beep interval after the first
C16_Witness ==
    /\ Has(audio, "beep")
    /\ ~guard_escalated
    /\ alert_active
    /\ play_gap = Ticks(beep_interval_seconds)
    /\ ctl.edge = "level"

\* C14: when the run terminates, by the quit key or by a failed camera read,
\* while the audio alert is active, a stop-playback request is issued at
\* termination.
C14_StopAtTermination ==
    (~running /\ alert_active) => Has(audio, "stop")

\* the DetectorState of a detector record
DetectorState(s) ==
    <<s.counter, s.alert_active, s.last_beep_time, s.fatigue_score,
      s.last_face_time, s.guard_alert_active, s.guard_escalated>>

\* the frame of the given kind, processed from the current state with no
\* collaborator failing
FailureFree(kind, dt, d) ==
    LET s == [Self EXCEPT !.fails = {}]
    IN  CASE kind = "closed" -> process_face(s, TRUE, dt, 0)
          [] kind = "open" -> process_face(s, FALSE, dt, 0)
          [] OTHER -> handle_no_face(s, dt, d[1], d[2], d[3])

\* C12: failures of the audio backend (play, stop) and of the log write never
\* reach the per-frame computation: every frame completes without raising,
\* and the DetectorState, the events handed to the logger and the audio
\* requests after it are those of the same frame processed without failure.
C12_FailuresSwallowed ==
    [][/\ ~raised'
       /\ \E dt \in IODtSet, d \in IODriftSet :
              LET r == FailureFree(frame', dt, d)
              IN  /\ clock' - clock \in {dt, dt + d[1] + d[2] + d[3]}
                  /\ DetectorState(r) =
                         <<counter', alert_active', last_beep_time',
                           fatigue_score', last_face_time',
                           guard_alert_active', guard_escalated'>>
                  /\ r.clock = clock'
                  /\ r.events = events'
                  /\ r.audio = audio']_vars

\* a frame whose beep request failed in the backend, after a failed log
\* write, with the alert raised and the beep time recorded all the same
C12_Witness ==
    /\ audio = <<"beep">>
    /\ sounded = <<>>
    /\ write_failed
    /\ alert_active
    /\ last_beep_time = clock
    /\ ~raised

\* C13: with a log path and no failed write, the file holds its rows from
\* before the run unaltered (the one header row if the path was fresh),
\* followed by one two-field row per emitted event, in emission order.
C13_LogRoundTrip ==
    (log_path /\ ~write_failed /\ emitted # <<>>) =>
        /\ log_file.exists
        /\ log_file.rows =
               (IF log_initial.exists THEN log_initial.rows
                ELSE <<LogHeader>>) \o emitted
        /\ \A i \in DOMAIN emitted :
               Len(emitted[i]) = 2

\* three events written to a fresh path: the header row and three rows
C13_Witness ==
    /\ ~log_initial.exists
    /\ ~write_failed
    /\ Len(emitted) = 3
    /\ Len(log_file.rows) = 4
    /\ log_file.rows[1] = LogHeader
    /\ log_file.rows[4][2] = "ALERT_ESCALATED"

\* C18: every face frame, eyes open or closed, sets last_face_time to the
\* clock it reads; no frame without a face changes it, in guard mode or
\* not, whatever it requests from the audio backend or the logger.
C18_LastFaceTime ==
    [][/\ frame' \in {"closed", "open"} => last_face_time' = clock'
       /\ frame' = "noface" => last_face_time' = last_face_time]_vars

\* a closed-eye face frame that raises the alert and stamps the clock, after
\* the face was away
C18_Witness ==
    /\ frame = "closed"
    /\ last_face_time = clock
    /\ clock > ClockStart
    /\ events = <<"FATIGUE_ALERT">>
    /\ Has(audio, "beep")

====
